---- MODULE Spec2Model ----
(***************************************************************************)
(* Reflection decorators of packages/core/src/reflection/decorators.ts:    *)
(* createReflectionDecorator and its three wrappers, over the metadata     *)
(* store of reflect-metadata.                                              *)
(*                                                                         *)
(* JavaScript values are records [type, v]: v is the text of the value, so *)
(* the number 1 and the string "1" are different values with the same      *)
(* String() form.  A call completes with Return(value) or Throw(message).  *)
(***************************************************************************)
EXTENDS Integers, Sequences, FiniteSets, TLC

VARIABLES
    grp,            \* the registries that were created: id -> options
    metadata,       \* own metadata of every class: class -> (symbol -> value)
    lookupTarget,   \* own metadata of every registry's lookupTarget: id -> (symbol -> Map)
    applied,        \* history: id -> class -> {args of the latest application}
    written,        \* history: id -> the reverse-lookup keys decorations stored
    subDecorated,   \* history: the <<super value visible on the class, sub value>>
                    \* of every application of the pair's subDecorator
    subUnder,       \* history: class -> the super value visible at its latest
                    \* sub-decoration, and the <<super value, sub value>> of all of them
    nDecorated,     \* history: number of decorator applications so far
    last            \* history: the latest call and its completion

vars == <<grp, metadata, lookupTarget, applied, written, subDecorated, subUnder, nDecorated,
          last>>

\* Bound on the number of decorator applications in one run.
MaxDecorations == 4

----------------------------------------------------------------------------
\* JavaScript values

Undefined == [type |-> "undefined", v |-> "undefined"]
Null == [type |-> "object", v |-> "null"]
True == [type |-> "boolean", v |-> "true"]
False == [type |-> "boolean", v |-> "false"]
Num(text) == [type |-> "number", v |-> text]
Str(text) == [type |-> "string", v |-> text]
Class(name) == [type |-> "function", v |-> name]

Return(value) == [kind |-> "return", value |-> value]
Throw(message) == [kind |-> "throw", value |-> [type |-> "Error", v |-> message]]

\* String(value) of a primitive: a number's decimal text, a string itself.
String(value) == value.v

\* !!value
Truthy(value) ==
    ~ (\/ value.type = "undefined"
       \/ value = Null
       \/ value = False
       \/ value = Num("0")
       \/ value = Str(""))

\* The classes of the program: D1 extends B1, D2 extends B2.
ClassNames == {"B1", "D1", "B2", "D2"}
Classes == {Class(n) : n \in ClassNames}

\* Object.getPrototypeOf(constr): the class it extends; a root class has
\* Function.prototype, which carries no metadata (Null here).
GetPrototypeOf(constr) ==
    CASE constr = Class("D1") -> Class("B1")
      [] constr = Class("D2") -> Class("B2")
      [] OTHER -> Null

\* new C(): target.constructor is C.
New(constr) == [type |-> "object", v |-> "instance", constructor |-> constr]
Instances == {New(c) : c \in Classes}

\* The values decorators are called with.
ArgValues == {Num("1"), Num("2"), Str("1")}
PairValues == {Num("1"), Num("2")}

----------------------------------------------------------------------------
\* reflect-metadata

NoMetadata == [k \in {} |-> Undefined]

\* Mutant: an entry that exists is kept.
ReflectDefineMetadata_KeepFirst(md, key, value, target) ==
    [md EXCEPT ![target] = md[target] @@ (key :> value)]

\* Reflect.defineMetadata(key, value, target) on the store `md`
ReflectDefineMetadata(md, key, value, target) ==
    [md EXCEPT ![target] = (key :> value) @@ md[target]]

\* Mutant: own metadata alone, as Reflect.getOwnMetadata reads it.
OrdinaryGetMetadata_OwnOnly(md, key, O) ==
    IF key \in DOMAIN md[O] THEN md[O][key] ELSE Undefined

\* Mutant: the metadata of the class it extends comes first.
OrdinaryGetMetadata_ParentFirst(md, key, O) ==
    IF GetPrototypeOf(O) # Null /\ key \in DOMAIN md[GetPrototypeOf(O)]
    THEN md[GetPrototypeOf(O)][key]
    ELSE IF key \in DOMAIN md[O] THEN md[O][key] ELSE Undefined

RECURSIVE OrdinaryGetMetadata(_, _, _)
\* own metadata first, then the prototype chain
OrdinaryGetMetadata(md, key, O) ==
    IF key \in DOMAIN md[O] THEN md[O][key]
    ELSE IF GetPrototypeOf(O) = Null THEN Undefined
    ELSE OrdinaryGetMetadata(md, key, GetPrototypeOf(O))

\* Reflect.getMetadata(key, target): a TypeError unless target is an object;
\* an object that is no class of the program carries no metadata.
ReflectGetMetadata(md, key, target) ==
    IF target \in DOMAIN md THEN Return(OrdinaryGetMetadata(md, key, target))
    ELSE IF target.type \in {"object", "function"} /\ target # Null THEN Return(Undefined)
    ELSE Throw("TypeError")

----------------------------------------------------------------------------
\* createReflectionDecorator

\* Mutant: one symbol for every name.
key_AnyName(r) == "METADATA_"

\* Symbol.for(`METADATA_${name}`) and Symbol.for(`METADATA_MAP_${name}`): the
\* global symbol registry gives equal names the same symbol.
key(r) == "METADATA_" \o grp[r].name
mapKey(r) == "METADATA_MAP_" \o grp[r].name

\* valueFromArgs(...args) of a registry: the wrappers pass (arg) => arg and
\* () => true; "toString" stands for a caller's deriving function,
\* (arg) => String(arg).
valueFromArgs(r, args) ==
    CASE grp[r].valueFromArgs = "identity" -> args[1]
      [] grp[r].valueFromArgs = "true" -> True
      [] grp[r].valueFromArgs = "toString" -> Str(String(args[1]))

\* JSON.stringify of a primitive value
JSONStringify(value) ==
    IF value.type = "string" THEN "\"" \o value.v \o "\"" ELSE value.v

\* one property of a stringified object literal; undefined is left out
JSONProperty(name, value) ==
    IF value = Undefined THEN <<>>
    ELSE << "\"" \o name \o "\":" \o JSONStringify(value) >>

\* Mutant: the key is built from the sub value alone.
getLookupKey_SubOnly(superName, subName, superArg, subArg) ==
    "{" \o "\"" \o subName \o "\":" \o JSONStringify(subArg) \o "}"

\* JSON.stringify({ [superName]: superArg, [subName]: subArg }): a computed
\* key that repeats overwrites the value of the first.
getLookupKey(superName, subName, superArg, subArg) ==
    LET props == IF superName = subName
                 THEN JSONProperty(subName, subArg)
                 ELSE JSONProperty(superName, superArg) \o JSONProperty(subName, subArg)
    IN  CASE Len(props) = 0 -> "{}"
          [] Len(props) = 1 -> "{" \o props[1] \o "}"
          [] OTHER -> "{" \o props[1] \o "," \o props[2] \o "}"

\* A caller's constructorLookupKey function: the string form of the argument
\* for a root class, prefixed with the class name for a derived class.
byTarget(target, args) ==
    IF GetPrototypeOf(target) = Null THEN String(args[1])
    ELSE target.v \o ":" \o String(args[1])

\* Mutant: the super value is not looked up.
subConstructorLookupKey_NoSuper(md, r, target, args) ==
    getLookupKey(grp[r].superName, grp[r].name, Undefined, args[1])

\* The sub decorator's constructorLookupKey: the super value visible on the
\* target now, combined with the sub decorator's argument.
subConstructorLookupKey(md, r, target, args) ==
    LET superArg == ReflectGetMetadata(md, "METADATA_" \o grp[r].superName, target).value
    IN  getLookupKey(grp[r].superName, grp[r].name, superArg, args[1])

\* constructorLookupKey?.(target, ...args) ?? String(value)
\* Whether the constructorLookupKey callback raises instead of returning a
\* key: the "checked" callback accepts numbers only,
\* (target, arg) => { if (typeof arg !== "number") throw ...; return String(arg) }.
callbackThrows(r, target, args) ==
    grp[r].constructorLookupKey = "checked" /\ args[1].type # "number"

reverseLookupKey(md, r, target, args, value) ==
    CASE grp[r].constructorLookupKey \in {"byTarget", "observing"} -> byTarget(target, args)
      [] grp[r].constructorLookupKey = "pair" -> subConstructorLookupKey(md, r, target, args)
      [] OTHER -> String(value)

\* new Map(), map.set(key, value), map.get(key)
NewMap == [k \in {} |-> Undefined]

\* Mutant: a key that is taken keeps its class.
MapSet_KeepFirst(map, k, value) == map @@ (k :> value)

MapSet(map, k, value) == (k :> value) @@ map
MapGet(map, k) == IF k \in DOMAIN map THEN map[k] ELSE Undefined

\* Mutant: every decoration starts a new Map.
mapOrNew_AlwaysNew(r) == NewMap

\* Reflect.getMetadata(mapKey, lookupTarget) || new Map()
mapOrNew(r) ==
    IF mapKey(r) \in DOMAIN lookupTarget[r] THEN lookupTarget[r][mapKey(r)] ELSE NewMap

\* The stores after the decorator body has run on `target`.
bodyMetadata(r, target, args) ==
    ReflectDefineMetadata(metadata, key(r), valueFromArgs(r, args), target)

\* Mutant: registries of the same name share one lookupTarget.
bodyLookupTarget_SharedByName(r, target, args) ==
    LET k == reverseLookupKey(bodyMetadata(r, target, args), r, target, args,
                              valueFromArgs(r, args))
    IN  [q \in DOMAIN grp |->
            IF grp[q].name = grp[r].name
            THEN (mapKey(r) :> MapSet(mapOrNew(r), k, target)) @@ lookupTarget[q]
            ELSE lookupTarget[q]]

bodyLookupTarget(r, target, args) ==
    IF grp[r].constructorLookupKey = "false" \/ callbackThrows(r, target, args)
    THEN lookupTarget
    ELSE LET k == reverseLookupKey(bodyMetadata(r, target, args), r, target, args,
                                   valueFromArgs(r, args))
         IN  [lookupTarget EXCEPT
                ![r] = (mapKey(r) :> MapSet(mapOrNew(r), k, target)) @@ @]

\* decorator(...args)(target)
body(r, target, args) ==
    /\ metadata' = bodyMetadata(r, target, args)
    /\ lookupTarget' = bodyLookupTarget(r, target, args)

\* What the constructorLookupKey callback sees when it runs: the "observing"
\* callback, (target, arg) => { ...; return byTarget(target, arg) }, calls
\* lookupValueStatic(target) and lookupConstructorByKey of the key it is about
\* to return.  It runs after the value was stored: md is the metadata at that
\* point, and lookupTarget is not written yet.
NotObserved == [made |-> FALSE, value |-> Return(Undefined), constr |-> Return(Undefined)]

observe(md, r, target, args) ==
    IF grp[r].constructorLookupKey # "observing" THEN NotObserved
    ELSE [made |-> TRUE,
          value |-> ReflectGetMetadata(md, key(r), target),
          constr |-> IF mapKey(r) \in DOMAIN lookupTarget[r]
                     THEN Return(MapGet(lookupTarget[r][mapKey(r)], byTarget(target, args)))
                     ELSE Return(Undefined)]

\* decorator(...args), not applied to a class: valueFromArgs is evaluated and
\* the body, a function named after the registry, is returned.
decorator(r, args) ==
    Return([type |-> "function", v |-> "decoratorBody_" \o grp[r].name,
            value |-> valueFromArgs(r, args)])

\* target.constructor
Constructor(target) ==
    IF "constructor" \in DOMAIN target THEN target.constructor ELSE Undefined

lookupValue(r, target) == ReflectGetMetadata(metadata, key(r), Constructor(target))

lookupValueStatic(r, constr) == ReflectGetMetadata(metadata, key(r), constr)

\* Mutant: no check that reverse lookup is enabled.
lookupConstructorByKey_Unchecked(r, k) ==
    IF mapKey(r) \in DOMAIN lookupTarget[r]
    THEN Return(MapGet(lookupTarget[r][mapKey(r)], k))
    ELSE Return(Undefined)

\* Mutant: map.get(key) without the optional chaining.
lookupConstructorByKey_NoMapCheck(r, k) ==
    IF grp[r].constructorLookupKey = "false"
    THEN Throw("Constructor lookup is disabled for this decorator!")
    ELSE IF mapKey(r) \in DOMAIN lookupTarget[r]
         THEN Return(MapGet(lookupTarget[r][mapKey(r)], k))
         ELSE Throw("TypeError")

lookupConstructorByKey(r, k) ==
    IF grp[r].constructorLookupKey = "false"
    THEN Throw("Constructor lookup is disabled for this decorator!")
    ELSE IF mapKey(r) \in DOMAIN lookupTarget[r]
         THEN Return(MapGet(lookupTarget[r][mapKey(r)], k))
         ELSE Return(Undefined)

\* Mutant: no check for a custom constructorLookupKey.
lookupConstructorByValue_NoCustomCheck(r, value) ==
    IF grp[r].constructorLookupKey = "false"
    THEN Throw("Constructor lookup is disabled for this decorator!")
    ELSE lookupConstructorByKey(r, String(value))

lookupConstructorByValue(r, value) ==
    IF grp[r].constructorLookupKey = "false"
    THEN Throw("Constructor lookup is disabled for this decorator!")
    ELSE IF grp[r].constructorLookupKey # "undefined"
         THEN Throw("Cannot lookup constructor by value when constructorLookupKey is used")
         ELSE lookupConstructorByKey(r, String(value))

createReflectionDecorator(name, vfa, clk) ==
    [name |-> name, valueFromArgs |-> vfa, constructorLookupKey |-> clk,
     superName |-> "", api |-> "generic"]

----------------------------------------------------------------------------
\* createSimpleReflectionDecorator

createSimpleReflectionDecorator(name) ==
    [createReflectionDecorator(name, "identity", "undefined") EXCEPT !.api = "simple"]

lookupConstructor(r, value) == lookupConstructorByValue(r, value)

----------------------------------------------------------------------------
\* createValuelessReflectionDecorator

createValuelessReflectionDecorator(name) ==
    [createReflectionDecorator(name, "true", "undefined") EXCEPT !.api = "valueless"]

\* Mutant: the looked up value is returned as it is.
Coerce_Uncoerced(completion) == completion

\* !!decorator.lookupValue(target): a throw of the lookup passes through
Coerce(completion) ==
    IF completion.kind = "throw" THEN completion
    ELSE Return(IF Truthy(completion.value) THEN True ELSE False)

isDecorated(r, target) == Coerce(lookupValue(r, target))

isDecoratedStatic(r, constr) == Coerce(lookupValueStatic(r, constr))

----------------------------------------------------------------------------
\* createReflectionDecoratorPair

createReflectionDecoratorPair(superName, subName) ==
    ("super" :> [createReflectionDecorator(superName, "identity", "undefined")
                    EXCEPT !.api = "super"])
    @@
    ("sub" :> [createReflectionDecorator(subName, "identity", "pair")
                    EXCEPT !.api = "sub", !.superName = superName])

lookupSuperConstructor(value) == lookupConstructorByValue("super", value)

\* Mutant: a key without super value is tried when the composite key is absent.
lookupSubConstructor_Fallback(superArg, subArg) ==
    LET found == lookupConstructorByKey("sub",
                     getLookupKey(grp["sub"].superName, grp["sub"].name, superArg, subArg))
    IN  IF found # Return(Undefined) THEN found
        ELSE lookupConstructorByKey("sub",
                 getLookupKey(grp["sub"].superName, grp["sub"].name, Undefined, subArg))

lookupSubConstructor(superArg, subArg) ==
    lookupConstructorByKey("sub",
        getLookupKey(grp["sub"].superName, grp["sub"].name, superArg, subArg))

----------------------------------------------------------------------------
\* The calls a program makes

\* The argument lists a registry's decorator is called with: none for a
\* marker, one value otherwise (numbers alone in a program with two
\* registries).
ArgLists(r) ==
    CASE grp[r].valueFromArgs = "true" -> {<<>>}
      [] Cardinality(DOMAIN grp) = 2 -> {<<a>> : a \in PairValues}
      [] OTHER -> {<<a>> : a \in ArgValues}

\* The values and keys lookups are called with: those in use and one more.
LookupValues == ArgValues \cup {Num("3")}
LookupKeys == {"1", "2", "3", "D1:1", "true"}
PairLookupValues == PairValues \cup {Undefined}

NoCall ==
    [op |-> "none", reg |-> "", target |-> Undefined, args |-> <<>>, key |-> "",
     previous |-> {}, observed |-> NotObserved, result |-> Return(Undefined)]

Call(op, r, target, args, k, result) ==
    [NoCall EXCEPT !.op = op, !.reg = r, !.target = target, !.args = args,
                   !.key = k, !.result = result]

\* decorator(...args) applied to the class `target`
Decorate(r, target, args) ==
    /\ nDecorated < MaxDecorations
    /\ body(r, target, args)
    /\ applied' = [applied EXCEPT ![r][target] = {args}]
    /\ written' = IF grp[r].constructorLookupKey = "false" \/ callbackThrows(r, target, args)
                  THEN written
                  ELSE [written EXCEPT ![r] = @ \cup
                          {reverseLookupKey(metadata', r, target, args, valueFromArgs(r, args))}]
    /\ subDecorated' = IF grp[r].api # "sub" THEN subDecorated
                       ELSE subDecorated \cup
                              {<<ReflectGetMetadata(metadata', "METADATA_" \o grp[r].superName,
                                                    target).value, args[1]>>}
    /\ subUnder' = IF grp[r].api # "sub" THEN subUnder
                   ELSE LET superArg == ReflectGetMetadata(metadata',
                                            "METADATA_" \o grp[r].superName, target).value
                        IN  [subUnder EXCEPT ![target] =
                                [latest |-> {superArg},
                                 pairs |-> @.pairs \cup {<<superArg, args[1]>>}]]
    /\ nDecorated' = nDecorated + 1
    /\ last' = [Call("decorator", r, target, args, "",
                      IF callbackThrows(r, target, args) THEN Throw("not a number")
                      ELSE Return(Undefined))
                   EXCEPT !.previous = applied[r][target],
                          !.observed = observe(metadata', r, target, args)]
    /\ UNCHANGED grp

\* Mutant: a lookup stores the Map it read or created.
Lookup_CreatesMap(call) ==
    /\ last' = call
    /\ lookupTarget' = [r \in DOMAIN grp |->
                          IF r = call.reg THEN (mapKey(r) :> mapOrNew(r)) @@ lookupTarget[r]
                          ELSE lookupTarget[r]]
    /\ UNCHANGED <<grp, metadata, applied, written, subDecorated, subUnder, nDecorated>>

\* A call that only reads, a lookup or decorator(...args) left unapplied:
\* the stores stay as they are, the completion is recorded.
Lookup(call) ==
    /\ last' = call
    /\ UNCHANGED <<grp, metadata, lookupTarget, applied, written, subDecorated, subUnder,
                   nDecorated>>

Decorator ==
    \E r \in DOMAIN grp, target \in Classes :
        \E args \in ArgLists(r) : Decorate(r, target, args)

DecoratorUnapplied ==
    \E r \in DOMAIN grp : \E args \in ArgLists(r) :
        /\ grp[r].api \in {"generic", "simple", "valueless"}
        /\ Lookup(Call("decorator()", r, Undefined, args, "", decorator(r, args)))

LookupValue ==
    \E r \in DOMAIN grp, target \in Instances :
        /\ grp[r].api \in {"generic", "simple"}
        /\ Lookup(Call("lookupValue", r, target, <<>>, "", lookupValue(r, target)))

LookupValueStatic ==
    \E r \in DOMAIN grp, constr \in Classes :
        /\ grp[r].api \in {"generic", "simple"}
        /\ Lookup(Call("lookupValueStatic", r, constr, <<>>, "", lookupValueStatic(r, constr)))

LookupConstructorByValue ==
    \E r \in DOMAIN grp, value \in LookupValues :
        /\ grp[r].api = "generic"
        /\ Lookup(Call("lookupConstructorByValue", r, Undefined, <<value>>, "",
                       lookupConstructorByValue(r, value)))

LookupConstructorByKey ==
    \E r \in DOMAIN grp, k \in LookupKeys :
        /\ grp[r].api = "generic"
        /\ Lookup(Call("lookupConstructorByKey", r, Undefined, <<>>, k,
                       lookupConstructorByKey(r, k)))

LookupConstructor ==
    \E r \in DOMAIN grp, value \in LookupValues :
        /\ grp[r].api = "simple"
        /\ Lookup(Call("lookupConstructor", r, Undefined, <<value>>, "",
                       lookupConstructor(r, value)))

IsDecorated ==
    \E r \in DOMAIN grp, target \in Instances :
        /\ grp[r].api = "valueless"
        /\ Lookup(Call("isDecorated", r, target, <<>>, "", isDecorated(r, target)))

IsDecoratedStatic ==
    \E r \in DOMAIN grp, constr \in Classes :
        /\ grp[r].api = "valueless"
        /\ Lookup(Call("isDecoratedStatic", r, constr, <<>>, "", isDecoratedStatic(r, constr)))

LookupSubConstructor ==
    \E superArg \in PairLookupValues, subArg \in PairLookupValues :
        /\ "sub" \in DOMAIN grp
        /\ Lookup(Call("lookupSubConstructor", "sub", Undefined, <<superArg, subArg>>, "",
                    lookupSubConstructor(superArg, subArg)))

----------------------------------------------------------------------------
\* A program with one registry

\* The options createReflectionDecorator is called with.
Options ==
    {createReflectionDecorator("msgType", "identity", clk) :
        clk \in {"undefined", "false", "byTarget"}}
    \cup {createReflectionDecorator("msgType", "toString", "undefined")}

Registries ==
    {("K" :> o) : o \in Options}
    \cup {("K" :> createSimpleReflectionDecorator("msgType"))}
    \cup {("K" :> createValuelessReflectionDecorator("marker"))}

InitStores ==
    /\ metadata = [c \in Classes |-> NoMetadata]
    /\ lookupTarget = [r \in DOMAIN grp |-> NoMetadata]
    /\ applied = [r \in DOMAIN grp |-> [c \in Classes |-> {}]]
    /\ written = [r \in DOMAIN grp |-> {}]
    /\ subDecorated = {}
    /\ subUnder = [c \in Classes |-> [latest |-> {}, pairs |-> {}]]
    /\ nDecorated = 0
    /\ last = NoCall

Init ==
    /\ grp \in Registries
    /\ InitStores

Next ==
    \/ Decorator
    \/ LookupValue
    \/ LookupValueStatic
    \/ LookupConstructorByValue
    \/ LookupConstructorByKey
    \/ LookupConstructor
    \/ IsDecorated
    \/ IsDecoratedStatic

Spec == Init /\ [][Next]_vars

----------------------------------------------------------------------------
\* A program with a pair of registries

InitPair ==
    /\ grp = createReflectionDecoratorPair("cc", "cmd")
    /\ InitStores

NextPair ==
    \/ Decorator
    \/ LookupSubConstructor

SpecPair == InitPair /\ [][NextPair]_vars

----------------------------------------------------------------------------
\* A program with two generic registries, created with different names or
\* with the same name

\* Two calls of createReflectionDecorator: each has its own lookupTarget.
createTwo(name1, name2) ==
    ("R1" :> createReflectionDecorator(name1, "identity", "undefined"))
    @@
    ("R2" :> createReflectionDecorator(name2, "identity", "undefined"))

InitTwo ==
    /\ grp \in {createTwo("a", "b"), createTwo("a", "a")}
    /\ InitStores

NextTwo ==
    \/ Decorator
    \/ LookupValueStatic

SpecTwo == InitTwo /\ [][NextTwo]_vars

----------------------------------------------------------------------------
\* A program with one generic registry whose constructorLookupKey callback
\* makes lookups of its own, or raises for some arguments

InitCallback ==
    /\ grp \in {("K" :> createReflectionDecorator("msgType", "identity", clk)) :
                   clk \in {"observing", "checked"}}
    /\ InitStores

NextCallback ==
    \/ Decorator
    \/ LookupValueStatic
    \/ LookupConstructorByKey

SpecCallback == InitCallback /\ [][NextCallback]_vars

----------------------------------------------------------------------------
\* A program with one registry (a generic one whose values are the
\* arguments, or a marker) or the pair, that also calls decorator(...args)
\* without applying the result

InitAll ==
    /\ grp \in {("K" :> o) : o \in {p \in Options : p.valueFromArgs = "identity"}}
               \cup {("K" :> createValuelessReflectionDecorator("marker"))}
               \cup {createReflectionDecoratorPair("cc", "cmd")}
    /\ InitStores

NextAll ==
    \/ Decorator
    \/ DecoratorUnapplied
    \/ LookupValue
    \/ LookupValueStatic
    \/ LookupConstructorByValue
    \/ LookupConstructorByKey
    \/ IsDecorated
    \/ IsDecoratedStatic
    \/ LookupSubConstructor

SpecAll == InitAll /\ [][NextAll]_vars

----------------------------------------------------------------------------
\* Properties

\* Every key a decoration or a lookup of one registry can use.
Keys ==
    LookupKeys
    \cup {String(a) : a \in ArgValues}
    \cup {byTarget(c, <<a>>) : c \in Classes, a \in ArgValues}

\* The key the body stores `target` under, in the state after it ran.
KeyOf(r, target, args) ==
    reverseLookupKey(metadata, r, target, args, valueFromArgs(r, args))

\* C1: after K.decorator(args) is applied to C, and until it is applied to C
\* again, lookupValueStatic(C) is valueFromArgs(args), and lookupValue of an
\* instance of C is the same.
C1_ValueOfDecoratedClass ==
    \A r \in DOMAIN grp, c \in Classes : \A args \in applied[r][c] :
        /\ lookupValueStatic(r, c) = Return(valueFromArgs(r, args))
        /\ lookupValue(r, New(c)) = Return(valueFromArgs(r, args))

C1_Witness ==
    /\ last.op = "lookupValue"
    /\ nDecorated >= 3
    /\ applied[last.reg][Constructor(last.target)] # {}
    /\ \E c \in Classes : c # Constructor(last.target) /\ applied[last.reg][c] # {}

\* C2: with reverse lookup enabled and the default key, right after
\* K.decorator(args) is applied to C, lookupConstructorByValue of
\* valueFromArgs(args) returns C, whatever was decorated before; so does the
\* single-value registry's lookupConstructor.
C2_ConstructorOfValue ==
    (last.op = "decorator" /\ grp[last.reg].constructorLookupKey = "undefined")
    => /\ lookupConstructorByValue(last.reg, valueFromArgs(last.reg, last.args))
            = Return(last.target)
       /\ grp[last.reg].api = "simple"
            => lookupConstructor(last.reg, valueFromArgs(last.reg, last.args))
                 = Return(last.target)

C2_Witness ==
    /\ last.op = "decorator"
    /\ grp[last.reg].api = "simple"
    /\ nDecorated >= 3
    /\ \E c \in Classes :
          /\ c # last.target
          /\ \E args \in applied[last.reg][c] :
                String(valueFromArgs(last.reg, args))
                    = String(valueFromArgs(last.reg, last.args))

\* The step applies r's decorator, called with args, to the class c.
Decorates(r, c, args) ==
    /\ nDecorated' = nDecorated + 1
    /\ last'.reg = r
    /\ last'.target = c
    /\ last'.args = args

\* C3 as stated: re-decorating C with other arguments makes lookupValueStatic(C)
\* the new value and the new key resolve to C, and the old key no longer
\* resolves to C unless it is the new key.
C3_OldKeyReleased ==
    (/\ last.op = "decorator"
     /\ grp[last.reg].constructorLookupKey # "false"
     /\ last.previous # {}
     /\ last.previous # {last.args})
    => /\ lookupValueStatic(last.reg, last.target)
            = Return(valueFromArgs(last.reg, last.args))
       /\ lookupConstructorByKey(last.reg, KeyOf(last.reg, last.target, last.args))
            = Return(last.target)
       /\ \A old \in last.previous :
            KeyOf(last.reg, last.target, old) # KeyOf(last.reg, last.target, last.args)
            => lookupConstructorByKey(last.reg, KeyOf(last.reg, last.target, old))
                 # Return(last.target)

\* C3 as amended: re-decorating C with other arguments makes
\* lookupValueStatic(C) the new value and the new key resolve to C; the entry
\* of every other key, the old key among them, is left as it was.
C3_OldKeyKept ==
    [][\A r \in DOMAIN grp, c \in Classes : \A args \in ArgLists(r) :
        (/\ Decorates(r, c, args)
         /\ grp[r].constructorLookupKey # "false"
         /\ applied[r][c] # {}
         /\ applied[r][c] # {args})
        => /\ lookupValueStatic(r, c)' = Return(valueFromArgs(r, args))
           /\ \A k \in Keys :
                IF k = reverseLookupKey(metadata', r, c, args, valueFromArgs(r, args))
                THEN lookupConstructorByKey(r, k)' = Return(c)
                ELSE lookupConstructorByKey(r, k)' = lookupConstructorByKey(r, k)
      ]_vars

\* C re-decorated under another key while its old key still resolves to C.
C3_Witness ==
    /\ last.op = "decorator"
    /\ grp[last.reg].constructorLookupKey # "false"
    /\ \E old \in last.previous :
          /\ KeyOf(last.reg, last.target, old) # KeyOf(last.reg, last.target, last.args)
          /\ lookupConstructorByKey(last.reg, KeyOf(last.reg, last.target, old))
                = Return(last.target)
    /\ lookupConstructorByKey(last.reg, KeyOf(last.reg, last.target, last.args))
          = Return(last.target)

\* C4: with reverse lookup enabled, a decoration of C2 under a key k that C1
\* holds raises nothing and makes lookupConstructorByKey(k), and
\* lookupConstructorByValue of a value whose default key is k, return C2; the
\* result for k changes in no step but a decoration that writes k.
C4_LastWriterWins ==
    [][/\ \A r \in DOMAIN grp, c \in Classes : \A args \in ArgLists(r) :
            (Decorates(r, c, args) /\ grp[r].constructorLookupKey # "false")
            => /\ last'.result.kind = "return"
               /\ \A k \in Keys :
                    k = reverseLookupKey(metadata', r, c, args, valueFromArgs(r, args))
                    => /\ lookupConstructorByKey(r, k)' = Return(c)
                       /\ grp[r].constructorLookupKey = "undefined"
                            => \A value \in LookupValues :
                                 String(value) = k
                                 => lookupConstructorByValue(r, value)' = Return(c)
       /\ lookupTarget' # lookupTarget
            => \A r \in DOMAIN grp, k \in Keys :
                 lookupConstructorByKey(r, k)' # lookupConstructorByKey(r, k)
                 => \E c \in Classes : \E args \in ArgLists(r) :
                      /\ Decorates(r, c, args)
                      /\ k = reverseLookupKey(metadata', r, c, args, valueFromArgs(r, args))
      ]_vars

\* C2 was decorated last, under the key of C1's latest decoration.
C4_Witness ==
    /\ last.op = "decorator"
    /\ grp[last.reg].constructorLookupKey # "false"
    /\ lookupConstructorByKey(last.reg, KeyOf(last.reg, last.target, last.args))
          = Return(last.target)
    /\ \E c \in Classes :
          /\ c # last.target
          /\ \E args \in applied[last.reg][c] :
                KeyOf(last.reg, c, args) = KeyOf(last.reg, last.target, last.args)

DisabledError == Throw("Constructor lookup is disabled for this decorator!")
AmbiguousError ==
    Throw("Cannot lookup constructor by value when constructorLookupKey is used")

\* C5: with constructorLookupKey = false, lookupConstructorByValue and
\* lookupConstructorByKey raise the disabled-operation error for every
\* argument, before and after any decorations.
C5_DisabledLookupsRaise ==
    \A r \in DOMAIN grp :
        grp[r].constructorLookupKey = "false"
        => /\ \A value \in LookupValues : lookupConstructorByValue(r, value) = DisabledError
           /\ \A k \in Keys : lookupConstructorByKey(r, k) = DisabledError

C5_Witness ==
    /\ last.op = "lookupConstructorByKey"
    /\ last.result = DisabledError
    /\ nDecorated >= 2
    /\ \E c \in Classes : \E args \in applied[last.reg][c] : KeyOf(last.reg, c, args) = last.key

\* C6: with a custom constructorLookupKey, lookupConstructorByValue raises the
\* ambiguous-lookup error for every value, also when a class is registered
\* under the string form of the value; lookupConstructorByKey does not raise.
C6_CustomKeyByValueRaises ==
    \A r \in DOMAIN grp :
        grp[r].constructorLookupKey \in {"byTarget", "pair"}
        => /\ \A value \in LookupValues : lookupConstructorByValue(r, value) = AmbiguousError
           /\ \A k \in Keys : lookupConstructorByKey(r, k).kind = "return"

C6_Witness ==
    /\ last.op = "lookupConstructorByValue"
    /\ last.result = AmbiguousError
    /\ lookupConstructorByKey(last.reg, String(last.args[1])).value \in Classes

\* C7: with reverse lookup enabled, lookupConstructorByKey(k) returns absent
\* and does not raise for every key never written, the initial state (no
\* table yet) included, and lookupConstructorByValue does under the default
\* key; lookupValue and lookupValueStatic never raise.
C7_AbsentIsNoError ==
    /\ \A r \in DOMAIN grp :
         grp[r].constructorLookupKey # "false"
         => /\ \A k \in Keys : lookupConstructorByKey(r, k).kind = "return"
            /\ \A k \in Keys \ written[r] :
                 /\ lookupConstructorByKey(r, k) = Return(Undefined)
                 /\ grp[r].constructorLookupKey = "undefined"
                      => \A value \in LookupValues :
                           String(value) = k
                           => lookupConstructorByValue(r, value) = Return(Undefined)
    /\ \A r \in DOMAIN grp, c \in Classes :
         /\ lookupValueStatic(r, c).kind = "return"
         /\ lookupValue(r, New(c)).kind = "return"

\* A key lookup before the first decoration, when no table exists.
C7_Witness ==
    /\ last.op = "lookupConstructorByKey"
    /\ last.result = Return(Undefined)
    /\ grp[last.reg].constructorLookupKey # "false"
    /\ nDecorated = 0

RECURSIVE NearestApplied(_, _)
\* The arguments of the latest application of r's decorator to the nearest
\* class of c's inheritance chain, c first, it was applied to; {} if none.
NearestApplied(r, c) ==
    IF applied[r][c] # {} THEN applied[r][c]
    ELSE IF GetPrototypeOf(c) = Null THEN {}
    ELSE NearestApplied(r, GetPrototypeOf(c))

\* C8 as stated: lookupValue and lookupValueStatic return "not found" for
\* every class K's decorator was never applied to, a class that extends a
\* decorated class included.
C8_UndecoratedNotFound ==
    \A r \in DOMAIN grp, c \in Classes :
        applied[r][c] = {}
        => /\ lookupValueStatic(r, c) = Return(Undefined)
           /\ lookupValue(r, New(c)) = Return(Undefined)

\* C8 as amended: lookupValue and lookupValueStatic return "not found" for
\* every class such that K's decorator was applied neither to it nor to a
\* class it extends; for a class it was never applied to that extends a
\* decorated class they return the value of the nearest decorated ancestor.
C8_UndecoratedInherits ==
    \A r \in DOMAIN grp, c \in Classes :
        applied[r][c] = {}
        => IF NearestApplied(r, c) = {}
           THEN /\ lookupValueStatic(r, c) = Return(Undefined)
                /\ lookupValue(r, New(c)) = Return(Undefined)
           ELSE \A args \in NearestApplied(r, c) :
                /\ lookupValueStatic(r, c) = Return(valueFromArgs(r, args))
                /\ lookupValue(r, New(c)) = Return(valueFromArgs(r, args))

\* A lookup on a class never decorated that extends a decorated class, while
\* another class has no decorated class in its chain.
C8_Witness ==
    /\ last.op = "lookupValueStatic"
    /\ applied[last.reg][last.target] = {}
    /\ NearestApplied(last.reg, last.target) # {}
    /\ last.result.value # Undefined
    /\ \E c \in Classes :
          /\ NearestApplied(last.reg, c) = {}
          /\ lookupValue(last.reg, New(c)) = Return(Undefined)

\* C9 as stated: isDecorated(i) and isDecoratedStatic(C) are false before the
\* marker decorator is applied to C and true after, whatever other classes
\* were decorated.
C9_MarkerOwnDecoration ==
    \A r \in DOMAIN grp, c \in Classes :
        grp[r].api = "valueless"
        => /\ isDecoratedStatic(r, c) = Return(IF applied[r][c] = {} THEN False ELSE True)
           /\ isDecorated(r, New(c)) = Return(IF applied[r][c] = {} THEN False ELSE True)

\* C9 as amended: isDecorated(i) and isDecoratedStatic(C) are false before the
\* marker decorator is applied to C or to a class C extends, and true after
\* it is applied to C or to a class C extends.
C9_MarkerInherited ==
    \A r \in DOMAIN grp, c \in Classes :
        grp[r].api = "valueless"
        => /\ isDecoratedStatic(r, c)
                = Return(IF NearestApplied(r, c) = {} THEN False ELSE True)
           /\ isDecorated(r, New(c))
                = Return(IF NearestApplied(r, c) = {} THEN False ELSE True)

\* isDecorated answered true for a decorated class while another class is
\* not decorated.
C9_Witness ==
    /\ last.op = "isDecorated"
    /\ last.result = Return(True)
    /\ applied[last.reg][Constructor(last.target)] # {}
    /\ \E c \in Classes : isDecoratedStatic(last.reg, c) = Return(False)

\* C10: right after a class D that extends B, B carrying the super value s
\* and D not super-decorated itself, is decorated with subDecorator(v),
\* lookupSubConstructor(s, v) returns D; lookupSubConstructor(s, v2) returns
\* absent for every sub value v2 no class was sub-decorated with under the
\* super value s.
C10_SubConstructor ==
    /\ \A s \in PairValues :
         (/\ last.op = "decorator"
          /\ last.reg = "sub"
          /\ GetPrototypeOf(last.target) # Null
          /\ applied["super"][last.target] = {}
          /\ applied["super"][GetPrototypeOf(last.target)] = {<<s>>})
         => lookupSubConstructor(s, last.args[1]) = Return(last.target)
    /\ \A s \in PairValues, v2 \in PairValues \cup {Num("3")} :
         <<s, v2>> \notin subDecorated
         => lookupSubConstructor(s, v2) = Return(Undefined)

\* D1, extending B1 with super value s, was sub-decorated with v and is found
\* under (s, v), and the lookup of another sub value under s is absent.
C10_Witness ==
    /\ last.op = "lookupSubConstructor"
    /\ last.result = Return(Undefined)
    /\ last.args[1] \in PairValues
    /\ last.args[2] \in PairValues
    /\ applied["super"][Class("B1")] = {<<last.args[1]>>}
    /\ applied["super"][Class("D1")] = {}
    /\ \E v \in PairValues :
          /\ applied["sub"][Class("D1")] = {<<v>>}
          /\ lookupSubConstructor(last.args[1], v) = Return(Class("D1"))

\* C11: a class D whose latest sub-decoration, with the sub value v, happened
\* while no super value was visible on it is not returned by
\* lookupSubConstructor(s, v) for any real super value s, whatever super
\* decorations D or its base class received afterwards.
C11_AbsentSuperNeverFound ==
    \A d \in Classes, s \in PairValues, v \in PairValues :
        (/\ subUnder[d].latest = {Undefined}
         /\ applied["sub"][d] = {<<v>>})
        => lookupSubConstructor(s, v) # Return(d)

\* D1 was sub-decorated with v while no super value was visible; its base
\* class B1 now carries the super value s, and lookupSubConstructor(s, v) was
\* called and did not return D1.
C11_Witness ==
    /\ last.op = "lookupSubConstructor"
    /\ last.result # Return(Class("D1"))
    /\ subUnder[Class("D1")].latest = {Undefined}
    /\ applied["sub"][Class("D1")] = {<<last.args[2]>>}
    /\ applied["super"][Class("B1")] = {<<last.args[1]>>}
    /\ lookupValueStatic("super", Class("D1")) = Return(last.args[1])

\* C16: B1 carries the super value s1 and B2 the super value s2 # s1; D1 was
\* last sub-decorated with v while s1 was visible on it and D2 with the same
\* v while s2 was visible on it, and no other class was sub-decorated with v
\* under s1 or under s2: lookupSubConstructor(s1, v) returns D1 and
\* lookupSubConstructor(s2, v) returns D2.
C16_NoCollisionAcrossSupers ==
    \A s1 \in PairValues, s2 \in PairValues, v \in PairValues :
        (/\ s1 # s2
         /\ applied["super"][Class("B1")] = {<<s1>>}
         /\ applied["super"][Class("B2")] = {<<s2>>}
         /\ applied["sub"][Class("D1")] = {<<v>>}
         /\ applied["sub"][Class("D2")] = {<<v>>}
         /\ subUnder[Class("D1")].latest = {s1}
         /\ subUnder[Class("D2")].latest = {s2}
         /\ \A c \in Classes \ {Class("D1")} : <<s1, v>> \notin subUnder[c].pairs
         /\ \A c \in Classes \ {Class("D2")} : <<s2, v>> \notin subUnder[c].pairs)
        => /\ lookupSubConstructor(s1, v) = Return(Class("D1"))
           /\ lookupSubConstructor(s2, v) = Return(Class("D2"))

\* The four decorations have happened, the last one being the second
\* sub-decoration with the shared sub value.
C16_Witness ==
    /\ last.op = "decorator"
    /\ last.reg = "sub"
    /\ last.target \in {Class("D1"), Class("D2")}
    /\ applied["sub"][Class("D1")] = {last.args}
    /\ applied["sub"][Class("D2")] = {last.args}
    /\ \E s1 \in PairValues, s2 \in PairValues :
          /\ s1 # s2
          /\ applied["super"][Class("B1")] = {<<s1>>}
          /\ applied["super"][Class("B2")] = {<<s2>>}
          /\ subUnder[Class("D1")].latest = {s1}
          /\ subUnder[Class("D2")].latest = {s2}
          /\ lookupSubConstructor(s1, last.args[1]) = Return(Class("D1"))
          /\ lookupSubConstructor(s2, last.args[1]) = Return(Class("D2"))

\* C17: right after the base class B of D, which carried the super value s,
\* is decorated with superDecorator(s2), s2 # s, where D is not
\* super-decorated itself, was last sub-decorated with v while s was visible,
\* no other class was sub-decorated with v under s, and D was not
\* sub-decorated with v under s2: lookupSubConstructor(s, v) still returns D,
\* lookupSubConstructor(s2, v) does not return D, and the super value looked
\* up on D is s2.
C17_KeyFixedAtSubDecoration ==
    \A d \in Classes, s \in PairValues, v \in PairValues :
        (/\ last.op = "decorator"
         /\ last.reg = "super"
         /\ last.target = GetPrototypeOf(d)
         /\ last.previous = {<<s>>}
         /\ last.args[1] # s
         /\ applied["super"][d] = {}
         /\ applied["sub"][d] = {<<v>>}
         /\ subUnder[d].latest = {s}
         /\ \A c \in Classes \ {d} : <<s, v>> \notin subUnder[c].pairs
         /\ <<last.args[1], v>> \notin subUnder[d].pairs)
        => /\ lookupSubConstructor(s, v) = Return(d)
           /\ lookupSubConstructor(last.args[1], v) # Return(d)
           /\ lookupValueStatic("super", d) = Return(last.args[1])

\* B1 was re-decorated with another super value after D1 had been
\* sub-decorated under the first one; D1 is still found under the first.
C17_Witness ==
    /\ last.op = "decorator"
    /\ last.reg = "super"
    /\ last.target = Class("B1")
    /\ last.previous # {}
    /\ last.previous # {last.args}
    /\ applied["super"][Class("D1")] = {}
    /\ applied["sub"][Class("D1")] # {}
    /\ subUnder[Class("D1")].latest = {a[1] : a \in last.previous}
    /\ \E v \in PairValues, s \in PairValues :
          /\ applied["sub"][Class("D1")] = {<<v>>}
          /\ last.previous = {<<s>>}
          /\ lookupSubConstructor(s, v) = Return(Class("D1"))
          /\ lookupValueStatic("super", Class("D1")) = Return(last.args[1])

\* C14: in every step, every key that lookupConstructorByKey resolves to a
\* class before the step still resolves to a class after it: entries of the
\* reverse-lookup table are added or replaced, never removed.
C14_EntriesNeverRemoved ==
    [][\A r \in DOMAIN grp, k \in Keys :
          lookupConstructorByKey(r, k).value \in Classes
          => lookupConstructorByKey(r, k)'.value \in Classes]_vars

\* lookupConstructorByKey returned a class whose latest decoration stored
\* another key: the entry outlived the decoration that wrote it.
C14_Witness ==
    /\ last.op = "lookupConstructorByKey"
    /\ last.result.kind = "return"
    /\ last.result.value \in Classes
    /\ applied[last.reg][last.result.value] # {}
    /\ \A args \in applied[last.reg][last.result.value] :
          KeyOf(last.reg, last.result.value, args) # last.key

\* C18: in every state, lookupValueStatic of a class and lookupValue of its
\* instance return the value of the latest application of the decorator to
\* the nearest decorated class of its chain, the class itself first, and
\* absent exactly when no class of the chain was decorated; and a step that
\* decorates a class leaves the value looked up on the class it extends
\* unchanged.
C18_ValueFollowsHierarchy ==
    /\ [](\A r \in DOMAIN grp, c \in Classes :
            IF NearestApplied(r, c) = {}
            THEN /\ lookupValueStatic(r, c) = Return(Undefined)
                 /\ lookupValue(r, New(c)) = Return(Undefined)
            ELSE \A args \in NearestApplied(r, c) :
                 /\ lookupValueStatic(r, c) = Return(valueFromArgs(r, args))
                 /\ lookupValue(r, New(c)) = Return(valueFromArgs(r, args))
                 /\ valueFromArgs(r, args) # Undefined)
    /\ [][\A r \in DOMAIN grp, d \in Classes :
            (/\ nDecorated' = nDecorated + 1
             /\ last'.target = d
             /\ GetPrototypeOf(d) # Null)
            => /\ lookupValueStatic(r, GetPrototypeOf(d))'
                    = lookupValueStatic(r, GetPrototypeOf(d))
               /\ lookupValue(r, New(GetPrototypeOf(d)))'
                    = lookupValue(r, New(GetPrototypeOf(d)))]_vars

\* A class and the class it extends are both decorated, with different
\* values, the extending one last: its lookup returns its own value and the
\* lookup of the class it extends still returns the other; a second extending
\* class, not decorated, returns the value of the class it extends.
C18_Witness ==
    /\ last.op = "decorator"
    /\ last.target = Class("D1")
    /\ applied[last.reg][Class("B1")] # {}
    /\ applied[last.reg][Class("B1")] # applied[last.reg][Class("D1")]
    /\ lookupValueStatic(last.reg, Class("D1")) = Return(valueFromArgs(last.reg, last.args))
    /\ lookupValueStatic(last.reg, Class("B1")) # lookupValueStatic(last.reg, Class("D1"))
    /\ applied[last.reg][Class("D2")] = {}
    /\ applied[last.reg][Class("B2")] # {}
    /\ lookupValueStatic(last.reg, Class("D2")) = lookupValueStatic(last.reg, Class("B2"))

\* C15: every step that is not the application of a decorator to a class,
\* that is every lookup, whether it returns a class or a value, returns
\* absent or raises, and every call decorator(...args) whose result is not
\* applied, leaves every value slot and every reverse-lookup table unchanged.
C15_OnlyDecorationMutates ==
    [][last'.op # "decorator" => UNCHANGED <<metadata, lookupTarget>>]_vars

\* After a decoration, a lookup raised; the value slot and, if there is one,
\* the reverse-lookup table hold what the decoration stored.
C15_Witness ==
    /\ last.result.kind = "throw"
    /\ last.op \in {"lookupConstructorByKey", "lookupConstructorByValue"}
    /\ nDecorated > 0
    /\ \E c \in Classes : applied[last.reg][c] # {} /\ metadata[c] # NoMetadata

\* C12: a step that applies the decorator of a registry r1 leaves unchanged
\* every lookup of every registry r2 created with a different name:
\* lookupValueStatic of every class, lookupValue of every instance,
\* lookupConstructorByValue of every value and lookupConstructorByKey of
\* every key.
C12_DistinctNamesIndependent ==
    [][\A r1 \in DOMAIN grp, r2 \in DOMAIN grp :
          (/\ grp[r1].name # grp[r2].name
           /\ nDecorated' = nDecorated + 1
           /\ last'.reg = r1)
          => /\ \A c \in Classes :
                  /\ lookupValueStatic(r2, c)' = lookupValueStatic(r2, c)
                  /\ lookupValue(r2, New(c))' = lookupValue(r2, New(c))
             /\ \A value \in LookupValues :
                  lookupConstructorByValue(r2, value)' = lookupConstructorByValue(r2, value)
             /\ \A k \in LookupKeys :
                  lookupConstructorByKey(r2, k)' = lookupConstructorByKey(r2, k)]_vars

\* A class decorated by R2 was then decorated by R1, whose name is different,
\* with another value: R2's value of the class and R2's constructor of that
\* value are those of R2's decoration.
C12_Witness ==
    /\ last.op = "decorator"
    /\ last.reg = "R1"
    /\ grp["R1"].name # grp["R2"].name
    /\ applied["R2"][last.target] # {}
    /\ applied["R2"][last.target] # {last.args}
    /\ \A args \in applied["R2"][last.target] :
          /\ lookupValueStatic("R2", last.target) = Return(valueFromArgs("R2", args))
          /\ lookupConstructorByValue("R2", valueFromArgs("R2", args)) = Return(last.target)
    /\ lookupValueStatic("R1", last.target) = Return(valueFromArgs("R1", last.args))

\* C19: for two registries r1 and r2 created with the same name and the
\* default key, right after r1's decorator is applied to a class with args,
\* r2's lookupValueStatic of the class is valueFromArgs(args); and in every
\* state r2's lookupConstructorByKey and lookupConstructorByValue return only
\* classes r2's own decorator was applied to, and absent for a key no
\* decoration through r2 stored.
C19_SameNameSharesValueOnly ==
    \A r1 \in DOMAIN grp, r2 \in DOMAIN grp :
        (r1 # r2 /\ grp[r1].name = grp[r2].name)
        => /\ (last.op = "decorator" /\ last.reg = r1)
              => lookupValueStatic(r2, last.target)
                    = Return(valueFromArgs(r1, last.args))
           /\ \A k \in LookupKeys :
                 /\ lookupConstructorByKey(r2, k).value \in Classes
                    => applied[r2][lookupConstructorByKey(r2, k).value] # {}
                 /\ k \notin written[r2]
                    => lookupConstructorByKey(r2, k) = Return(Undefined)
           /\ \A value \in LookupValues :
                 lookupConstructorByValue(r2, value).value \in Classes
                 => applied[r2][lookupConstructorByValue(r2, value).value] # {}

\* R1 and R2 have the same name; R1's decorator was just applied to a class
\* R2's decorator was never applied to: R2 looks up R1's value on the class,
\* does not find the class by that value, and finds a class of its own.
C19_Witness ==
    /\ last.op = "decorator"
    /\ last.reg = "R1"
    /\ grp["R1"].name = grp["R2"].name
    /\ applied["R2"][last.target] = {}
    /\ lookupValueStatic("R2", last.target) = Return(valueFromArgs("R1", last.args))
    /\ lookupConstructorByValue("R2", valueFromArgs("R1", last.args)) = Return(Undefined)
    /\ lookupConstructorByValue("R1", valueFromArgs("R1", last.args)) = Return(last.target)
    /\ \E value \in PairValues :
          lookupConstructorByValue("R2", value).value \in Classes

\* C13: right after a decorator with reverse lookup enabled was
\* applied to a class, neither a lookup made from inside the
\* constructorLookupKey callback nor, when the callback failed, a lookup made
\* afterwards has seen the class's value slot hold the new value while the
\* reverse-lookup table does not hold the key -> class entry.
C13_NoPartialState ==
    last.op = "decorator"
    => /\ last.observed.made
          => ~ (/\ last.observed.value = Return(valueFromArgs(last.reg, last.args))
                /\ last.observed.constr # Return(last.target))
       /\ last.result.kind = "throw"
          => ~ (/\ lookupValueStatic(last.reg, last.target)
                     = Return(valueFromArgs(last.reg, last.args))
                /\ \A k \in Keys : lookupConstructorByKey(last.reg, k) # Return(last.target))

====
